---- MODULE Spec2Model ----
(***************************************************************************)
(* RigidSim: quaternion algebra (Quaternion.hpp) and the rigid body        *)
(* integrator (RigidSolver.hpp).                                           *)
(*                                                                         *)
(* Numbers.  A tReal is modelled by an exact rational <<n, d>> in lowest   *)
(* terms with d > 0; rounding of the machine type is not modelled.         *)
(* A Quaternion is modelled by a record [a, b, c, d, s]: its components    *)
(* are a/sqrt(s), b/sqrt(s), c/sqrt(s), d/sqrt(s) with s a positive        *)
(* rational.  The only irrational operation of the program, the std::sqrt  *)
(* of Quaternion::normalize, is exact in this representation.              *)
(***************************************************************************)
EXTENDS Integers, Sequences, FiniteSets, TLC

\* ------------------------------------------------------------------------
\* bounds of the model
\* ------------------------------------------------------------------------
\* total number of RigidSolver::step calls in one behaviour
MaxCalls == 4

\* ------------------------------------------------------------------------
\* tReal arithmetic
\* ------------------------------------------------------------------------
Abs(x) == IF x < 0 THEN -x ELSE x

RECURSIVE GCD(_, _)
GCD(x, y) == IF y = 0 THEN x ELSE GCD(y, x % y)

Rat(n, d) ==
  LET k == GCD(Abs(n), Abs(d))
      sg == IF d < 0 THEN -1 ELSE 1
  IN  <<sg * (n \div k), sg * (d \div k)>>

Zero == <<0, 1>>
One == <<1, 1>>
Two == <<2, 1>>

RatAdd(x, y) == Rat(x[1] * y[2] + y[1] * x[2], x[2] * y[2])
RatSub(x, y) == Rat(x[1] * y[2] - y[1] * x[2], x[2] * y[2])
RatMul(x, y) == Rat(x[1] * y[1], x[2] * y[2])
\* x / y for y # 0
RatDiv(x, y) == Rat(x[1] * y[2], x[2] * y[1])

\* ------------------------------------------------------------------------
\* Vec3f and Mat3f
\* ------------------------------------------------------------------------
Vec3f(x, y, z) == <<x, y, z>>
VecZero == Vec3f(Zero, Zero, Zero)
VecAdd(u, v) == [i \in 1..3 |-> RatAdd(u[i], v[i])]
VecScale(k, v) == [i \in 1..3 |-> RatMul(k, v[i])]
VecDiv(v, k) == [i \in 1..3 |-> RatDiv(v[i], k)]

Mat3f(a00, a01, a02, a10, a11, a12, a20, a21, a22) ==
  <<<<a00, a01, a02>>, <<a10, a11, a12>>, <<a20, a21, a22>>>>
MatI == Mat3f(One, Zero, Zero, Zero, One, Zero, Zero, Zero, One)
MatScale(k, A) == [i \in 1..3 |-> [j \in 1..3 |-> RatMul(k, A[i][j])]]
Dot3(u, v) ==
  RatAdd(RatAdd(RatMul(u[1], v[1]), RatMul(u[2], v[2])), RatMul(u[3], v[3]))
MatVec(A, v) == [i \in 1..3 |-> Dot3(A[i], v)]
MatTranspose(A) == [i \in 1..3 |-> [j \in 1..3 |-> A[j][i]]]
MatMul(A, B) ==
  [i \in 1..3 |-> [j \in 1..3 |-> Dot3(A[i], MatTranspose(B)[j])]]
\* A.mulTranspose(B) = A * transpose(B)
MatMulTranspose(A, B) == [i \in 1..3 |-> [j \in 1..3 |-> Dot3(A[i], B[j])]]
MatDet(A) ==
  RatAdd(RatSub(
    RatMul(A[1][1], RatSub(RatMul(A[2][2], A[3][3]), RatMul(A[2][3], A[3][2]))),
    RatMul(A[1][2], RatSub(RatMul(A[2][1], A[3][3]), RatMul(A[2][3], A[3][1])))),
    RatMul(A[1][3], RatSub(RatMul(A[2][1], A[3][2]), RatMul(A[2][2], A[3][1]))))

\* ------------------------------------------------------------------------
\* Quaternion
\* ------------------------------------------------------------------------
\* Quaternion(a, b, c, d) of four tReal values
Quaternion(a, b, c, d) == [a |-> a, b |-> b, c |-> c, d |-> d, s |-> One]

\* the tReal product x*y of two components x/sqrt(s), y/sqrt(s) of q
QProd(q, x, y) == RatDiv(RatMul(x, y), q.s)

\* Quaternion::operator*(Quaternion const &x)
QMul(p, x) ==
  [a |-> RatSub(RatSub(RatSub(RatMul(p.a, x.a), RatMul(p.b, x.b)),
                       RatMul(p.c, x.c)), RatMul(p.d, x.d)),
   b |-> RatSub(RatAdd(RatAdd(RatMul(p.a, x.b), RatMul(p.b, x.a)),
                       RatMul(p.c, x.d)), RatMul(p.d, x.c)),
   c |-> RatAdd(RatAdd(RatSub(RatMul(p.a, x.c), RatMul(p.b, x.d)),
                       RatMul(p.c, x.a)), RatMul(p.d, x.b)),
   d |-> RatAdd(RatSub(RatAdd(RatMul(p.a, x.d), RatMul(p.b, x.c)),
                       RatMul(p.c, x.b)), RatMul(p.d, x.a)),
   s |-> RatMul(p.s, x.s)]

\* the exact rational square root of a rational square
RatSqrt(x) ==
  LET n == CHOOSE k \in 0..x[1] : k * k = x[1]
      d == CHOOSE k \in 1..x[2] : k * k = x[2]
  IN  Rat(n, d)

\* q rewritten over the radical s (s / q.s a rational square)
QOver(q, s) ==
  IF q.s = s THEN q
  ELSE LET k == RatSqrt(RatDiv(s, q.s))
       IN  [a |-> RatMul(k, q.a), b |-> RatMul(k, q.b),
            c |-> RatMul(k, q.c), d |-> RatMul(k, q.d), s |-> s]

\* Quaternion::operator+(Quaternion const &x)
QAdd(p, x) ==
  LET y == QOver(x, p.s)
  IN  [a |-> RatAdd(p.a, y.a), b |-> RatAdd(p.b, y.b),
       c |-> RatAdd(p.c, y.c), d |-> RatAdd(p.d, y.d), s |-> p.s]

\* Quaternion::operator*(tReal const &p)
QScale(q, p) ==
  [a |-> RatMul(p, q.a), b |-> RatMul(p, q.b),
   c |-> RatMul(p, q.c), d |-> RatMul(p, q.d), s |-> q.s]

\* Quaternion::dot
QDot(p, q) ==
  LET y == QOver(q, p.s)
  IN  RatAdd(RatAdd(RatAdd(QProd(p, p.a, y.a), QProd(p, p.b, y.b)),
                    QProd(p, p.c, y.c)), QProd(p, p.d, y.d))

\* q * (1.0 / std::sqrt(r)) for r > 0
QScaleInvSqrt(q, r) == [q EXCEPT !.s = RatMul(q.s, r)]

\* Quaternion::normalize
normalize(q) == QScaleInvSqrt(q, QDot(q, q))

\* Quaternion::toRotationMatrix
toRotationMatrix(q) ==
  Mat3f(
    RatSub(One, RatMul(Two, RatAdd(QProd(q, q.c, q.c), QProd(q, q.d, q.d)))),
    RatMul(Two, RatSub(QProd(q, q.b, q.c), QProd(q, q.a, q.d))),
    RatMul(Two, RatAdd(QProd(q, q.b, q.d), QProd(q, q.a, q.c))),

    RatMul(Two, RatAdd(QProd(q, q.b, q.c), QProd(q, q.a, q.d))),
    RatSub(One, RatMul(Two, RatAdd(QProd(q, q.b, q.b), QProd(q, q.d, q.d)))),
    RatMul(Two, RatSub(QProd(q, q.c, q.d), QProd(q, q.a, q.b))),

    RatMul(Two, RatSub(QProd(q, q.b, q.d), QProd(q, q.a, q.c))),
    RatMul(Two, RatAdd(QProd(q, q.c, q.d), QProd(q, q.a, q.b))),
    RatSub(One, RatMul(Two, RatSub(QProd(q, q.b, q.b), QProd(q, q.c, q.c)))))

\* ------------------------------------------------------------------------
\* BodyAttributes and Box
\* ------------------------------------------------------------------------
\* BodyAttributes::BodyAttributes: the rigid body state and the auxiliary
\* quantities; M, I0, I0inv and Iinv are set by the derived class
BodyAttributes ==
  [X |-> VecZero, Q |-> Quaternion(One, Zero, Zero, Zero), R |-> MatI,
   P |-> VecZero, L |-> VecZero, V |-> VecZero, omega |-> VecZero,
   F |-> VecZero, tau |-> VecZero]

\* Box::Box(w, h, d, dens, v0, omega0); (1/12) is a division of two ints
Box(w, h, d, dens, v0, omega0) ==
  LET hh == RatMul(h, h)
      dd == RatMul(d, d)
      ww == RatMul(w, w)
      M == RatMul(RatMul(RatMul(dens, w), h), d)
      I0 == MatScale(RatMul(Rat(1 \div 12, 1), M),
                     Mat3f(RatAdd(hh, dd), Zero, Zero,
                           Zero, RatAdd(ww, dd), Zero,
                           Zero, Zero, RatAdd(ww, hh)))
      I0inv == MatScale(RatDiv(Rat(12, 1), M),
                        Mat3f(RatDiv(One, RatAdd(hh, dd)), Zero, Zero,
                              Zero, RatDiv(One, RatAdd(ww, dd)), Zero,
                              Zero, Zero, RatDiv(One, RatAdd(ww, hh))))
      base == BodyAttributes
  IN  [X |-> base.X, Q |-> base.Q, R |-> base.R, P |-> base.P, L |-> base.L,
       V |-> v0, omega |-> omega0, F |-> base.F, tau |-> base.tau,
       M |-> M, I0 |-> I0, I0inv |-> I0inv,
       Iinv |-> MatMul(base.R, MatMulTranspose(I0inv, base.R)),
       width |-> w, height |-> h, depth |-> d]

\* ------------------------------------------------------------------------
\* RigidSolver
\* ------------------------------------------------------------------------
\* the factor .1 applied to gravity
GravityScale == Rat(1, 10)
\* Vec3f(1.0, 7, 2.4)/5.0
ExtraForce == VecDiv(Vec3f(One, Rat(7, 1), Rat(12, 5)), Rat(5, 1))
\* Vec3f(.005, .005, 0.0)
ExtraTorque == Vec3f(Rat(1, 200), Rat(1, 200), Zero)

\* computeForceAndTorque with the impulse on every step after the first
computeForceAndTorque_everyStep(b, g, n) ==
  LET F0 == VecScale(GravityScale, g)
  IN  IF n >= 1
      THEN [b EXCEPT !.F = VecAdd(F0, ExtraForce), !.tau = ExtraTorque]
      ELSE [b EXCEPT !.F = F0, !.tau = VecZero]

\* computeForceAndTorque with the impulse on the very first step
computeForceAndTorque_firstStep(b, g, n) ==
  LET F0 == VecScale(GravityScale, g)
  IN  IF n = 0
      THEN [b EXCEPT !.F = VecAdd(F0, ExtraForce), !.tau = ExtraTorque]
      ELSE [b EXCEPT !.F = F0, !.tau = VecZero]

\* computeForceAndTorque with the impulse replacing gravity
computeForceAndTorque_impulseOnly(b, g, n) ==
  LET F0 == VecScale(GravityScale, g)
  IN  IF n = 1
      THEN [b EXCEPT !.F = ExtraForce, !.tau = ExtraTorque]
      ELSE [b EXCEPT !.F = F0, !.tau = VecZero]

\* RigidSolver::computeForceAndTorque on body b, with gravity g and step
\* count n
computeForceAndTorque(b, g, n) ==
  LET F0 == VecScale(GravityScale, g)
  IN  IF n = 1
      THEN [b EXCEPT !.F = VecAdd(F0, ExtraForce), !.tau = ExtraTorque]
      ELSE [b EXCEPT !.F = F0, !.tau = VecZero]

\* step, lines 130-131: the velocities from the momenta
deriveVelocities(b) ==
  [b EXCEPT !.V = VecDiv(b.P, b.M), !.omega = MatVec(b.Iinv, b.L)]

\* step, lines 135-136: the momenta from the force and torque
integrateMomenta(b, dt) ==
  [b EXCEPT !.P = VecAdd(b.P, VecScale(dt, b.F)),
            !.L = VecAdd(b.L, VecScale(dt, b.tau))]

\* step, line 139: the position from the velocity
integratePosition(b, dt) ==
  [b EXCEPT !.X = VecAdd(b.X, VecScale(dt, b.V))]

\* step, line 141: Q + Quaternion(0, omega.x, omega.y, omega.z) * Q * dt
integrateOrientation(b, dt) ==
  [b EXCEPT !.Q =
     QAdd(b.Q, QScale(QMul(Quaternion(Zero, b.omega[1], b.omega[2], b.omega[3]),
                           b.Q), dt))]

\* step, line 142
normalizeOrientation(b) == [b EXCEPT !.Q = normalize(b.Q)]

\* step, line 143
resyncRotation(b) == [b EXCEPT !.R = toRotationMatrix(b.Q)]

\* step without the resync of R
step_noResync(b, g, n, dt) ==
  normalizeOrientation(integrateOrientation(integratePosition(
    integrateMomenta(deriveVelocities(computeForceAndTorque(b, g, n)), dt),
    dt), dt))

\* step without the normalization of Q
step_noNormalize(b, g, n, dt) ==
  resyncRotation(integrateOrientation(integratePosition(
    integrateMomenta(deriveVelocities(computeForceAndTorque(b, g, n)), dt),
    dt), dt))

\* step with the momenta integrated before the velocities are derived
step_momentumFirst(b, g, n, dt) ==
  resyncRotation(normalizeOrientation(integrateOrientation(integratePosition(
    deriveVelocities(integrateMomenta(computeForceAndTorque(b, g, n), dt)),
    dt), dt)))

\* step with the velocities derived after the position and orientation are
\* integrated
step_velocityLast(b, g, n, dt) ==
  deriveVelocities(resyncRotation(normalizeOrientation(integrateOrientation(
    integratePosition(integrateMomenta(computeForceAndTorque(b, g, n), dt),
                      dt), dt))))

\* RigidSolver::step(dt), the part that writes the body: b is *body, g is
\* _g and n is _step
step(b, g, n, dt) ==
  resyncRotation(normalizeOrientation(integrateOrientation(integratePosition(
    integrateMomenta(deriveVelocities(computeForceAndTorque(b, g, n)), dt),
    dt), dt)))

\* ------------------------------------------------------------------------
\* the inputs of the model
\* ------------------------------------------------------------------------
\* the BodyAttributes objects of the program; 0 is nullptr
Bodies == {1, 2}
\* the time increments passed to step
DT == {Rat(-1, 1), Zero, Rat(2, 1)}
\* the gravity vectors given to the RigidSolver constructor
Gs == {VecZero, Vec3f(Zero, Rat(-49, 5), Zero)}
\* the initial velocities and angular velocities given to the Box constructor
V0s == {VecZero, Vec3f(One, Zero, Zero)}
Omega0s == {VecZero, Vec3f(Zero, Zero, One)}
\* the densities of the two boxes (unit cubes)
Dens(b) == IF b = 1 THEN Rat(3, 100) ELSE Rat(3, 50)

\* ------------------------------------------------------------------------
\* state
\* ------------------------------------------------------------------------
VARIABLES
  bodies,    \* the Box objects: bodies[b] is the state of body b
  body,      \* RigidSolver::body, 0 for nullptr
  _g,        \* RigidSolver::_g
  _step,     \* RigidSolver::_step
  _sim_t,    \* RigidSolver::_sim_t
  born,      \* the Box objects as they were constructed
  atInit,    \* the Box objects as they were when the solver was last
             \* constructed or init was last called
  dts,       \* the dt arguments of the step calls since then
  calls,     \* the number of step calls so far
  pq,        \* a Quaternion object under the quaternion operations
  pm,        \* the Mat3f last returned by pq.toRotationMatrix()
  ppc        \* "new", "normalized" or "converted"

vars == <<bodies, body, _g, _step, _sim_t, born, atInit, dts, calls, pq, pm, ppc>>
solverVars == <<bodies, body, _g, _step, _sim_t, born, atInit, dts, calls>>
quatVars == <<pq, pm, ppc>>

\* the program after the boxes and RigidSolver(body0, g) are constructed
SolverInit ==
  /\ \E v0 \in V0s, omega0 \in Omega0s :
       bodies = [b \in Bodies |->
                   IF b = 1
                   THEN Box(One, One, One, Dens(b), VecZero, VecZero)
                   ELSE Box(One, One, One, Dens(b), v0, omega0)]
  /\ body \in {0} \cup Bodies
  /\ _g \in Gs
  /\ _step = 0
  /\ _sim_t = Zero
  /\ born = bodies
  /\ atInit = bodies
  /\ dts = <<>>
  /\ calls = 0

QuatIdle ==
  /\ pq = Quaternion(One, Zero, Zero, Zero)
  /\ pm = MatI
  /\ ppc = "new"

Init == SolverInit /\ QuatIdle

\* init that rebinds the body and leaves the step counter
DoInit_keepCounter(body0) ==
  /\ body' = body0
  /\ _step' = _step
  /\ _sim_t' = Zero
  /\ atInit' = bodies
  /\ dts' = <<>>
  /\ UNCHANGED <<bodies, _g, born, calls>>
  /\ UNCHANGED <<pq, pm, ppc>>

\* RigidSolver::init(body0)
DoInit(body0) ==
  /\ body' = body0
  /\ _step' = 0
  /\ _sim_t' = Zero
  /\ atInit' = bodies
  /\ dts' = <<>>
  /\ UNCHANGED <<bodies, _g, born, calls>>
  /\ UNCHANGED quatVars

\* step that assigns dt to the clock instead of adding it
DoStep_clockAssigned(dt) ==
  /\ body # 0
  /\ calls < MaxCalls
  /\ bodies' = [bodies EXCEPT ![body] = step(bodies[body], _g, _step, dt)]
  /\ _step' = _step + 1
  /\ _sim_t' = dt
  /\ dts' = Append(dts, dt)
  /\ calls' = calls + 1
  /\ UNCHANGED <<body, _g, born, atInit>>
  /\ UNCHANGED <<pq, pm, ppc>>

\* RigidSolver::step(dt); a step through a null body pointer does not return
DoStep(dt) ==
  /\ body # 0
  /\ calls < MaxCalls
  /\ bodies' = [bodies EXCEPT ![body] = step(bodies[body], _g, _step, dt)]
  /\ _step' = _step + 1
  /\ _sim_t' = RatAdd(_sim_t, dt)
  /\ dts' = Append(dts, dt)
  /\ calls' = calls + 1
  /\ UNCHANGED <<body, _g, born, atInit>>
  /\ UNCHANGED quatVars

Next ==
  \/ \E body0 \in Bodies : DoInit(body0)
  \/ \E dt \in DT : DoStep(dt)

Spec == Init /\ [][Next]_vars

\* ------------------------------------------------------------------------
\* the quaternion operations applied to one Quaternion object
\* ------------------------------------------------------------------------
\* the component values of the quaternions tried
QComps == {Rat(-1, 1), Zero, One}
QHalves == {Rat(-1, 2), Rat(1, 2)}
QuatInputs ==
  {Quaternion(a, b, c, d) : a \in QComps, b \in QComps, c \in QComps, d \in QComps}
  \cup
  {Quaternion(a, b, c, d) : a \in QHalves, b \in QHalves, c \in QHalves, d \in QHalves}

\* the solver left alone: no body bound, no call made
SolverIdle ==
  /\ bodies = [b \in Bodies |-> Box(One, One, One, Dens(b), VecZero, VecZero)]
  /\ body = 0
  /\ _g = VecZero
  /\ _step = 0
  /\ _sim_t = Zero
  /\ born = bodies
  /\ atInit = bodies
  /\ dts = <<>>
  /\ calls = 0

\* a Quaternion object other than the zero quaternion
QuatInit ==
  /\ SolverIdle
  /\ pq \in QuatInputs
  /\ QDot(pq, pq) # Zero
  /\ pm = MatI
  /\ ppc = "new"

\* pq.normalize()
QNormalize ==
  /\ ppc = "new"
  /\ pq' = normalize(pq)
  /\ ppc' = "normalized"
  /\ UNCHANGED pm
  /\ UNCHANGED solverVars

\* pm = pq.toRotationMatrix()
QToRotationMatrix ==
  /\ ppc \in {"new", "normalized"}
  /\ pm' = toRotationMatrix(pq)
  /\ ppc' = "converted"
  /\ UNCHANGED pq
  /\ UNCHANGED solverVars

QuatNext ==
  \/ QNormalize
  \/ QToRotationMatrix

QuatSpec == QuatInit /\ [][QuatNext]_vars

\* ------------------------------------------------------------------------
\* auxiliary definitions of the properties
\* ------------------------------------------------------------------------
RECURSIVE SumSeq(_)
SumSeq(ds) == IF ds = <<>> THEN Zero ELSE RatAdd(Head(ds), SumSeq(Tail(ds)))

\* the body b after step(ds[1]), ..., step(ds[Len(ds)]) of a solver with
\* gravity g whose step counter stands at n
RECURSIVE Run(_, _, _, _)
Run(b, g, n, ds) ==
  IF ds = <<>> THEN b ELSE Run(step(b, g, n, Head(ds)), g, n + 1, Tail(ds))

IsUnit(q) == QDot(q, q) = One
SameDt == \A i \in 1..Len(dts) : dts[i] = dts[1]
ScaledGravity == VecScale(Rat(1, 10), _g)
OneShotForce == Vec3f(Rat(1, 5), Rat(7, 5), Rat(12, 25))
OneShotTorque == Vec3f(Rat(1, 200), Rat(1, 200), Zero)
Observed(b) == <<b.X, b.Q, b.R, b.P, b.L, b.V, b.omega>>

C2_RotationMatrixOrthonormal ==
  (ppc = "converted" /\ IsUnit(pq)) =>
    /\ MatMul(MatTranspose(pm), pm) = MatI
    /\ MatDet(pm) = One

\* C3: after init(body) and any step calls, the body, the step counter and
\* the clock are those of a freshly constructed body and solver given the
\* same dt sequence, whatever the solver and the body went through before.
C3_InitRestartsLikeFresh ==
  body # 0 =>
    /\ bodies[body] = Run(born[body], _g, 0, dts)
    /\ _step = Len(dts)
    /\ _sim_t = SumSeq(dts)

\* C3 as amended: the same, provided the body passed to init is in its
\* freshly constructed state; the solver may have stepped before.
C3_InitOfFreshBodyLikeFresh ==
  (body # 0 /\ atInit[body] = born[body]) =>
    /\ bodies[body] = Run(born[body], _g, 0, dts)
    /\ _step = Len(dts)
    /\ _sim_t = SumSeq(dts)

\* the solver stepped one body, was then bound by init to a body never
\* stepped, and stepped that one past the impulse
C3_Witness ==
  /\ body # 0
  /\ atInit[body] = born[body]
  /\ calls > Len(dts)
  /\ Len(dts) >= 2
  /\ bodies[body].L # VecZero

\* C4: from init with P = 0, after n calls step(dt) of one dt the linear
\* momentum is n*dt*(0.1*g).
C4_MomentumIsNDtGravity ==
  (body # 0 /\ atInit[body].P = VecZero /\ SameDt) =>
    bodies[body].P =
      IF dts = <<>> THEN VecZero
      ELSE VecScale(RatMul(Rat(Len(dts), 1), dts[1]), ScaledGravity)

\* C4 as amended: from init with P = 0, after n calls step(dt) of one dt the
\* linear momentum is n*dt*(0.1*g), plus dt*(0.2, 1.4, 0.48) once n >= 2.
C4_MomentumIsNDtGravityPlusImpulse ==
  (body # 0 /\ atInit[body].P = VecZero /\ SameDt) =>
    bodies[body].P =
      IF dts = <<>> THEN VecZero
      ELSE VecAdd(VecScale(RatMul(Rat(Len(dts), 1), dts[1]), ScaledGravity),
                  IF Len(dts) >= 2 THEN VecScale(dts[1], OneShotForce)
                  ELSE VecZero)

\* three steps of one nonzero dt under nonzero gravity, from zero momentum
C4_Witness ==
  /\ body # 0
  /\ atInit[body].P = VecZero
  /\ SameDt
  /\ Len(dts) >= 3
  /\ dts[1] # Zero
  /\ _g # VecZero

C6_MatrixIsConversionOfQuaternion ==
  \A b \in Bodies : bodies[b].R = toRotationMatrix(bodies[b].Q)

\* a body whose orientation has left the identity
C6_Witness ==
  \E b \in Bodies :
    /\ bodies[b].Q # born[b].Q
    /\ bodies[b].R # MatI

\* C7: the step counter is the number of step calls since the last init (or
\* construction) and the clock is the sum of their dt arguments.
C7_CounterAndClock ==
  /\ _step = Len(dts)
  /\ _sim_t = SumSeq(dts)

\* init was called after some steps, two steps followed, one of negative dt
C7_Witness ==
  /\ calls > Len(dts)
  /\ Len(dts) >= 2
  /\ \E i \in 1..Len(dts) : dts[i][1] < 0
  /\ _sim_t # Zero

\* C8: the orientation quaternion of every body has norm 1 in every
\* reachable state.
C8_QuaternionStaysUnit ==
  \A b \in Bodies : IsUnit(bodies[b].Q)

\* two consecutive steps of nonzero dt with nonzero angular velocity
C8_Witness ==
  /\ body # 0
  /\ Len(dts) = 4
  /\ dts[2] # Zero
  /\ dts[3] # Zero
  /\ dts[4] # Zero
  /\ bodies[body].omega # VecZero
  /\ bodies[body].Q # born[body].Q

\* C9: a step call derives V and omega from the momenta it finds, advances
\* X by dt times that V, and advances P and L by dt times the F and tau it
\* has just computed.
C9_VelocityFromOldMomenta ==
  [][(_step' = _step + 1) =>
       LET old == bodies[body]
           new == bodies'[body]
           dt == dts'[Len(dts')]
       IN  /\ new.V = VecDiv(old.P, old.M)
           /\ new.omega = MatVec(old.Iinv, old.L)
           /\ new.X = VecAdd(old.X, VecScale(dt, VecDiv(old.P, old.M)))
           /\ new.P = VecAdd(old.P, VecScale(dt, new.F))
           /\ new.L = VecAdd(old.L, VecScale(dt, new.tau))]_vars

\* a step has moved a body while changing its momentum: its velocity is
\* no longer P/M
C9_Witness ==
  /\ body # 0
  /\ _step >= 2
  /\ bodies[body].X # atInit[body].X
  /\ bodies[body].V # VecDiv(bodies[body].P, bodies[body].M)

\* C10: after one or more step calls on a freshly constructed body, X, Q,
\* R, P, L, V and omega are those of the body constructed with v0 = 0 and
\* omega0 = 0 and given the same step calls.
C10_InitialVelocitiesIgnored ==
  (body # 0 /\ atInit[body] = born[body] /\ Len(dts) >= 1) =>
    Observed(bodies[body]) =
      Observed(Run([born[body] EXCEPT !.V = VecZero, !.omega = VecZero],
                   _g, 0, dts))

\* a box constructed with nonzero v0 and omega0 has been stepped twice
C10_Witness ==
  /\ body # 0
  /\ atInit[body] = born[body]
  /\ born[body].V # VecZero
  /\ born[body].omega # VecZero
  /\ Len(dts) >= 2
  /\ dts[1] # Zero

====
